---- MODULE Spec2Model ----
(***************************************************************************)
(* TCP tunnel local server of shadowsocks-rust                             *)
(* (src/shadowsocks/src/relay/tcprelay/tunnel_local.rs).                   *)
(*                                                                         *)
(* run() checks the configuration, binds the listener and then loops       *)
(* forever: accept, pick a server, spawn one task per accepted socket.     *)
(* Each task runs handle_tunnel_client -> establish_client_tcp_tunnel.     *)
(*                                                                         *)
(* The operating system, the timer, the proxy transport and the two copy   *)
(* primitives are the environment: their outcomes are nondeterministic.    *)
(* A step of the accept loop or of a task is one action; the completion of *)
(* an awaited I/O operation is an environment action that the task then    *)
(* observes in its next poll.                                              *)
(***************************************************************************)
EXTENDS Integers, Sequences, FiniteSets, Bags, TLC

\* Bounds of the model.
MaxConns == 2          \* successful accepts explored
MaxAcceptFails == 2    \* failed accepts explored

\* time::sleep(Duration::from_secs(1)) after a failed accept.
BackoffSecs == 1

\* Values the environment and the configuration range over.
ForwardAddrs == {"fwd"}
IoOutcomes == {"ok", "timedout", "err"}

VARIABLES
    cfg,          \* context.config(): enable_tcp, local_addr, forward, no_delay
    pc,           \* position of run()
    result,       \* how run() ended: <<>> while running, <<"Err", e>> or <<"panic", m>>
    listener,     \* "none", "bound", "closed"
    binds,        \* number of TcpListener::bind calls
    acceptFails,  \* number of failed accepts
    slept,        \* seconds spent in the backoff sleep
    picks,        \* number of servers.pick_server() calls
    socket,       \* loop local `socket`: index into conns, 0 when not held
    server,       \* loop local `server`: the handle returned by the server-th
                  \* pick_server() call, 0 when not held
    runLog,       \* bag of the log records written by run()
    conns,        \* accepted client sockets, in accept order
    tasks,        \* spawned tasks, in spawn order
    wire          \* the bytes on the sockets of the connections whose traffic
                  \* is followed byte by byte (none in Spec and FairSpec)

runVars == <<pc, result, listener, binds, acceptFails, slept, picks, socket, server, runLog>>
vars == <<cfg, pc, result, listener, binds, acceptFails, slept, picks, socket, server,
          runLog, conns, tasks, wire>>

TaskIds == 1..Len(tasks)
ConnIds == 1..Len(conns)

LoopPcs == {"accept", "sleep", "pick", "spawn"}

\* A copy future (rhalf / whalf).  started: it has been polled.  res: "none"
\* before it is created, "pending" while it cannot complete, "ready" when its
\* next poll completes it, "dropped" after it is dropped.
NoFuture == [started |-> FALSE, res |-> "none"]
NewFuture == [started |-> FALSE, res |-> "pending"]

RunLogged(level, msg) == runLog (+) SetToBag({<<level, msg>>})

Log(rec, level, msg) == [rec EXCEPT !.log = Append(@, <<level, msg>>)]

Init ==
    /\ cfg \in [enable_tcp : BOOLEAN,
                local_addr : {"none", "local"},
                forward    : {"none"} \cup ForwardAddrs,
                no_delay   : BOOLEAN]
    /\ pc = "start"
    /\ result = <<>>
    /\ listener = "none"
    /\ binds = 0
    /\ acceptFails = 0
    /\ slept = 0
    /\ picks = 0
    /\ socket = 0
    /\ server = 0
    /\ runLog = EmptyBag
    /\ conns = <<>>
    /\ tasks = <<>>
    /\ wire = <<>>

----------------------------------------------------------------------------
(* run(): start-up                                                         *)

\* A panic unwinds run(): its locals, the listener included, are dropped.
Panic(msg) ==
    /\ pc' = "panicked"
    /\ result' = <<"panic", msg>>
    /\ listener' = IF listener = "bound" THEN "closed" ELSE listener

\* `?` on an Err: run() returns the error to its caller.
ReturnErr(e) ==
    /\ pc' = "returned"
    /\ result' = <<"Err", e>>
    /\ listener' = IF listener = "bound" THEN "closed" ELSE listener

\* assert!(context.config().mode.enable_tcp(), ...)
run_assert_mode ==
    /\ pc = "start"
    /\ IF cfg.enable_tcp
         THEN pc' = "bind_addr" /\ UNCHANGED <<result, listener>>
         ELSE Panic("TCP relay must be enabled for TUNNEL")
    /\ UNCHANGED <<cfg, wire, binds, acceptFails, slept, picks, socket, server, runLog, conns, tasks>>

\* local_addr.expect("local config"); local_addr.bind_addr(&context).await?
run_bind_addr ==
    /\ pc = "bind_addr"
    /\ IF cfg.local_addr = "none"
         THEN Panic("local config")
         ELSE \E resolved \in BOOLEAN :
                IF resolved
                  THEN pc' = "bind" /\ UNCHANGED <<result, listener>>
                  ELSE ReturnErr("bind_addr")
    /\ UNCHANGED <<cfg, wire, binds, acceptFails, slept, picks, socket, server, runLog, conns, tasks>>

\* Variant of bind_err: the failed bind is logged and tried again.
bind_err_retries ==
    /\ binds' = binds + 1
    /\ runLog' = RunLogged("error", "failed to listen")
    /\ UNCHANGED <<pc, result, listener>>

\* TcpListener::bind fails: error!(...) and the error is returned by `?`.
bind_err ==
    /\ binds' = binds + 1
    /\ runLog' = RunLogged("error", "failed to listen")
    /\ ReturnErr("bind")

\* TcpListener::bind(&bind_addr).await.map_err(...)?
run_bind ==
    /\ pc = "bind"
    /\ \/ /\ binds' = binds + 1
          /\ listener' = "bound"
          /\ pc' = "local_addr"
          /\ UNCHANGED <<result, runLog>>
       \/ bind_err
    /\ UNCHANGED <<cfg, wire, acceptFails, slept, picks, socket, server, conns, tasks>>

\* listener.local_addr().expect("determine port bound to")
run_local_addr ==
    /\ pc = "local_addr"
    /\ \E ok \in BOOLEAN :
         IF ok
           THEN pc' = "balancer" /\ UNCHANGED <<result, listener>>
           ELSE Panic("determine port bound to")
    /\ UNCHANGED <<cfg, wire, binds, acceptFails, slept, picks, socket, server, runLog, conns, tasks>>

\* PlainPingBalancer::new(context.clone(), ServerType::Tcp).await
run_balancer ==
    /\ pc = "balancer"
    /\ pc' = "forward"
    /\ UNCHANGED <<cfg, wire, result, listener, binds, acceptFails, slept, picks, socket, server,
                   runLog, conns, tasks>>

\* Variant of run_forward: the forward address is not checked.
run_forward_unchecked ==
    /\ pc = "forward"
    /\ pc' = "accept"
    /\ runLog' = RunLogged("info", "listening")
    /\ UNCHANGED <<cfg, wire, result, listener, binds, acceptFails, slept, picks, socket, server,
                   conns, tasks>>

\* context.config().forward.as_ref().expect(...); info!(...); enter the loop
run_forward ==
    /\ pc = "forward"
    /\ IF cfg.forward = "none"
         THEN Panic("forward address in config") /\ UNCHANGED runLog
         ELSE /\ pc' = "accept"
              /\ runLog' = RunLogged("info", "listening")
              /\ UNCHANGED <<result, listener>>
    /\ UNCHANGED <<cfg, wire, binds, acceptFails, slept, picks, socket, server, conns, tasks>>

----------------------------------------------------------------------------
(* run(): the accept loop                                                  *)

\* Variant of accept_ok: the loop keeps one socket slot, and storing the new
\* socket drops (closes) the one accepted before.
accept_ok_drops_previous ==
    /\ pc = "accept"
    /\ Len(conns) < MaxConns
    /\ conns' = Append([c \in 1..Len(conns) |->
                            IF c = Len(conns) THEN [conns[c] EXCEPT !.state = "closed"]
                                              ELSE conns[c]],
                       [state |-> "open", owner |-> 0])
    /\ socket' = Len(conns) + 1
    /\ pc' = "pick"
    /\ UNCHANGED <<cfg, wire, result, listener, binds, acceptFails, slept, picks, server, runLog, tasks>>

\* listener.accept().await returns Ok((socket, peer_addr))
accept_ok ==
    /\ pc = "accept"
    /\ Len(conns) < MaxConns
    /\ conns' = Append(conns, [state |-> "open", owner |-> 0])
    /\ socket' = Len(conns) + 1
    /\ pc' = "pick"
    /\ UNCHANGED <<cfg, wire, result, listener, binds, acceptFails, slept, picks, server, runLog, tasks>>

\* Variant of accept_err: the accept error is returned with `?`.
accept_err_returns ==
    /\ pc = "accept"
    /\ acceptFails < MaxAcceptFails
    /\ acceptFails' = acceptFails + 1
    /\ runLog' = RunLogged("error", "accept failed")
    /\ ReturnErr("accept")
    /\ UNCHANGED <<cfg, wire, binds, slept, picks, socket, server, conns, tasks>>

\* Variant of accept_err: the loop continues without the sleep.
accept_err_no_sleep ==
    /\ pc = "accept"
    /\ acceptFails < MaxAcceptFails
    /\ acceptFails' = acceptFails + 1
    /\ runLog' = RunLogged("error", "accept failed")
    /\ UNCHANGED <<cfg, wire, pc, result, listener, binds, slept, picks, socket, server, conns,
                   tasks>>

\* listener.accept().await returns Err(err): error!(...), then the sleep
accept_err ==
    /\ pc = "accept"
    /\ acceptFails < MaxAcceptFails
    /\ acceptFails' = acceptFails + 1
    /\ runLog' = RunLogged("error", "accept failed")
    /\ pc' = "sleep"
    /\ UNCHANGED <<cfg, wire, result, listener, binds, slept, picks, socket, server, conns, tasks>>

\* time::sleep(Duration::from_secs(1)).await completes; continue
run_sleep ==
    /\ pc = "sleep"
    /\ slept' = slept + BackoffSecs
    /\ pc' = "accept"
    /\ UNCHANGED <<cfg, wire, result, listener, binds, acceptFails, picks, socket, server, runLog,
                   conns, tasks>>

\* let server = servers.pick_server(); trace!(...); trace!(...)
run_pick ==
    /\ pc = "pick"
    /\ picks' = picks + 1
    /\ server' = picks + 1
    /\ runLog' = RunLogged("trace", "got connection") (+)
                    SetToBag({<<"trace", "picked proxy server">>})
    /\ pc' = "spawn"
    /\ UNCHANGED <<cfg, wire, result, listener, binds, acceptFails, slept, socket, conns, tasks>>

\* The future handed to tokio::spawn: it owns `server` and `socket` (async move).
NewTask(sock, svr) ==
    [pc |-> "start", sock |-> sock, server |-> svr, s |-> "held",
     nodelay |-> "notcalled", client_addr |-> 0, target |-> "none",
     svr_cfg |-> 0, io |-> "none", connects |-> 0, tunnel |-> "none",
     rmethod |-> 0, wmethod |-> 0,
     rhalf |-> NoFuture, whalf |-> NoFuture,
     first |-> "none", outcome |-> "none", result |-> "none", log |-> <<>>]

\* Variant of run_spawn: the task gets the socket but the loop keeps it too.
run_spawn_shares_socket ==
    /\ pc = "spawn"
    /\ tasks' = Append(tasks, NewTask(socket, server))
    /\ socket' = 0
    /\ server' = 0
    /\ pc' = "accept"
    /\ UNCHANGED <<cfg, wire, result, listener, binds, acceptFails, slept, picks, runLog, conns>>

\* Variant of run_spawn: the loop awaits the connection's future itself.
run_spawn_awaits ==
    /\ pc = "spawn"
    /\ tasks' = Append(tasks, NewTask(socket, server))
    /\ conns' = [conns EXCEPT ![socket].owner = Len(tasks) + 1]
    /\ socket' = 0
    /\ server' = 0
    /\ pc' = "join"
    /\ UNCHANGED <<cfg, wire, result, listener, binds, acceptFails, slept, picks, runLog>>

\* tokio::spawn(async move { ... }); the JoinHandle is dropped, the loop goes on
run_spawn ==
    /\ pc = "spawn"
    /\ tasks' = Append(tasks, NewTask(socket, server))
    /\ conns' = [conns EXCEPT ![socket].owner = Len(tasks) + 1]
    /\ socket' = 0
    /\ server' = 0
    /\ pc' = "accept"
    /\ UNCHANGED <<cfg, wire, result, listener, binds, acceptFails, slept, picks, runLog>>

----------------------------------------------------------------------------
(* The spawned task: handle_tunnel_client, establish_client_tcp_tunnel     *)

\* A task's step replaces its record; dropping `s` closes the client socket.
TaskUpdate(t, rec) ==
    /\ tasks' = [tasks EXCEPT ![t] = rec]
    /\ conns' = [conns EXCEPT ![rec.sock].state = IF rec.s = "dropped" THEN "closed" ELSE @]
    /\ UNCHANGED <<cfg, wire, pc, result, listener, binds, acceptFails, slept, picks, socket,
                   server, runLog>>

\* handle_tunnel_client returns res: every local still held is dropped, and
\* the spawned block logs an Err and discards it.
task_return(rec, res) ==
    LET dropped == [rec EXCEPT !.s = "dropped",
                               !.tunnel = IF @ = "open" THEN "closed" ELSE @,
                               !.rhalf.res = IF @ = "none" THEN @ ELSE "dropped",
                               !.whalf.res = IF @ = "none" THEN @ ELSE "dropped",
                               !.pc = "done",
                               !.result = res]
    IN  IF res = "Err"
          THEN Log(dropped, "debug", "TCP tunnel client exited with error")
          ELSE dropped

\* Variant of nodelay_failed: the error is returned with `?`.
nodelay_failed_returns(rec) ==
    task_return(Log([rec EXCEPT !.nodelay = "failed"], "error", "failed to set TCP_NODELAY"),
                "Err")

\* s.set_nodelay(true) failed: error!(...) and nothing else
nodelay_failed(rec) ==
    Log([rec EXCEPT !.nodelay = "failed", !.pc = "peer_addr"],
        "error", "failed to set TCP_NODELAY")

\* if server.config().no_delay { if let Err(err) = s.set_nodelay(true) {...} }
set_nodelay(t) ==
    /\ tasks[t].pc = "start"
    /\ IF cfg.no_delay
         THEN \E ok \in BOOLEAN :
                IF ok
                  THEN TaskUpdate(t, [tasks[t] EXCEPT !.nodelay = "ok", !.pc = "peer_addr"])
                  ELSE TaskUpdate(t, nodelay_failed(tasks[t]))
         ELSE TaskUpdate(t, [tasks[t] EXCEPT !.pc = "peer_addr"])

\* Variant of peer_addr_failed: the error is ignored and the task goes on
\* without a client address.
peer_addr_failed_goes_on(rec) == [rec EXCEPT !.pc = "connect"]

\* s.peer_addr()? failed
peer_addr_failed(rec) == task_return(rec, "Err")

\* let client_addr = s.peer_addr()?; let target_addr = ...forward.as_ref().unwrap();
peer_addr(t) ==
    /\ tasks[t].pc = "peer_addr"
    /\ \E ok \in BOOLEAN :
         IF ~ok
           THEN TaskUpdate(t, peer_addr_failed(tasks[t]))
           ELSE IF cfg.forward = "none"
             THEN TaskUpdate(t, [tasks[t] EXCEPT !.pc = "panicked", !.s = "dropped"])
             ELSE TaskUpdate(t, [tasks[t] EXCEPT !.client_addr = tasks[t].sock,
                                                 !.target = cfg.forward,
                                                 !.pc = "connect"])

\* Variant of connect_proxied: the task asks the balancer for a server itself.
connect_proxied_repicks(t) ==
    /\ tasks[t].pc = "connect"
    /\ picks' = picks + 1
    /\ tasks' = [tasks EXCEPT ![t] = [tasks[t] EXCEPT !.svr_cfg = picks + 1,
                                                      !.connects = @ + 1, !.io = "pending",
                                                      !.pc = "connecting"]]
    /\ UNCHANGED <<cfg, wire, pc, result, listener, binds, acceptFails, slept, socket,
                   server, runLog, conns>>

\* let svr_cfg = server.server_config();
\* ProxyStream::connect_proxied(server.clone_context(), svr_cfg, addr) is called
connect_proxied(t) ==
    /\ tasks[t].pc = "connect"
    /\ TaskUpdate(t, [tasks[t] EXCEPT !.svr_cfg = tasks[t].server,
                                      !.connects = @ + 1, !.io = "pending",
                                      !.pc = "connecting"])

\* The transport completes the pending connect, with a stream or an error.
env_connect_done(t) ==
    /\ tasks[t].pc = "connecting"
    /\ tasks[t].io = "pending"
    /\ \E r \in {"ok", "err"} : TaskUpdate(t, [tasks[t] EXCEPT !.io = r])

\* Variant of connect_failed: the tunnel open is tried again.
connect_failed_retries(rec) == [rec EXCEPT !.pc = "connect"]

\* connect_proxied(...).await? yields Err
connect_failed(rec) == task_return(rec, "Err")

\* let rhalf = copy_p2s(svr_cfg.method(), ...); let whalf = copy_s2p(svr_cfg.method(), ...):
\* the two copy futures, not yet polled, each with the method of svr_cfg.
make_copies(rec) ==
    [rec EXCEPT !.rhalf = NewFuture, !.whalf = NewFuture,
                !.rmethod = rec.svr_cfg, !.wmethod = rec.svr_cfg]

\* connect_proxied(...).await? is observed; on Ok: split both streams, create
\* the two copy futures (not yet polled), debug!("TUNNEL relay established")
connect_resume(t) ==
    /\ tasks[t].pc = "connecting"
    /\ tasks[t].io # "pending"
    /\ IF tasks[t].io = "err"
         THEN TaskUpdate(t, connect_failed(tasks[t]))
         ELSE TaskUpdate(t, Log(make_copies([tasks[t] EXCEPT !.tunnel = "open",
                                                             !.pc = "select"]),
                                "debug", "TUNNEL relay established"))

\* Variant of term_level: a timeout of the upstream's direction is logged at debug.
term_level_right_timeout_debug(side, o) ==
    IF side = "Left"
      THEN IF o = "ok" THEN "trace"
           ELSE IF o = "timedout" THEN "trace" ELSE "debug"
      ELSE IF o = "ok" THEN "trace" ELSE "debug"

\* The match arms on the result of select: the level of the termination record.
term_level(side, o) ==
    IF side = "Left"
      THEN IF o = "ok" THEN "trace"
           ELSE IF o = "timedout" THEN "trace" ELSE "debug"
      ELSE IF o = "ok" THEN "trace"
           ELSE IF o = "timedout" THEN "trace" ELSE "debug"

\* The termination record: trace!/debug!("TUNNEL relay {} -> {} closed ...") or
\* ("TUNNEL relay {} <- {} closed ..."), with the side and how its copy ended.
LogClosed(rec, side, o) ==
    [rec EXCEPT !.log = Append(@, <<term_level(side, o), "TUNNEL relay closed", side, o>>)]

\* Variant of relay_closed: an I/O error of the copy is returned to the caller.
relay_closed_propagates(rec, side, o) ==
    task_return(
        Log(LogClosed([rec EXCEPT !.first = side, !.outcome = o], side, o),
            "debug", "TUNNEL relay closed"),
        IF o = "ok" THEN "Ok" ELSE "Err")

\* Variant of relay_closed: after a termination the relay is started again.
relay_closed_restarts(rec, side, o) ==
    [make_copies([rec EXCEPT !.first = side, !.outcome = o]) EXCEPT !.pc = "select"]

\* select is ready with side finishing as o: log it, debug!("closed"), Ok(())
relay_closed(rec, side, o) ==
    task_return(
        Log(LogClosed([rec EXCEPT !.first = side, !.outcome = o], side, o),
            "debug", "TUNNEL relay closed"),
        "Ok")

\* Variant of select: both copies must complete (a join), rhalf is reported.
select_joins(rec, rr, rw, o) ==
    IF rr /\ rw
      THEN relay_closed([rec EXCEPT !.rhalf = [started |-> TRUE, res |-> "ready"],
                                    !.whalf = [started |-> TRUE, res |-> "ready"]],
                        "Left", o)
      ELSE [rec EXCEPT !.rhalf = [started |-> TRUE, res |-> IF rr THEN "ready" ELSE "pending"],
                       !.whalf = [started |-> TRUE, res |-> IF rw THEN "ready" ELSE "pending"],
                       !.pc = "relaying"]

\* Variant of select: whalf is polled first and wins if it completes.
select_polls_whalf_first(rec, rr, rw, o) ==
    IF rw
      THEN relay_closed([rec EXCEPT !.rhalf = [started |-> FALSE, res |-> @.res],
                                    !.whalf = [started |-> TRUE, res |-> "ready"]],
                        "Right", o)
      ELSE IF rr
        THEN relay_closed([rec EXCEPT !.rhalf = [started |-> TRUE, res |-> "ready"],
                                      !.whalf = [started |-> TRUE, res |-> "pending"]],
                          "Left", o)
        ELSE [rec EXCEPT !.rhalf = [started |-> TRUE, res |-> "pending"],
                         !.whalf = [started |-> TRUE, res |-> "pending"],
                         !.pc = "relaying"]

\* One poll of future::select(rhalf, whalf): rhalf is polled first and wins if
\* it completes; whalf is polled only when rhalf is pending.  rr and rw tell
\* whether the copy completes when polled now, o is what the winner returns.
select(rec, rr, rw, o) ==
    IF rr
      THEN relay_closed([rec EXCEPT !.rhalf = [started |-> TRUE, res |-> "ready"]],
                        "Left", o)
      ELSE IF rw
        THEN relay_closed([rec EXCEPT !.rhalf = [started |-> TRUE, res |-> "pending"],
                                      !.whalf = [started |-> TRUE, res |-> "ready"]],
                          "Right", o)
        ELSE [rec EXCEPT !.rhalf = [started |-> TRUE, res |-> "pending"],
                         !.whalf = [started |-> TRUE, res |-> "pending"],
                         !.pc = "relaying"]

\* Variant of select_poll: connections are relayed one at a time, in order.
select_poll_serial(t) ==
    /\ tasks[t].pc \in {"select", "relaying"}
    /\ \A u \in 1..(t - 1) : tasks[u].pc = "done"
    /\ \E rr, rw \in BOOLEAN, o \in IoOutcomes :
         /\ tasks[t].pc = "relaying" =>
               /\ rr = (tasks[t].rhalf.res = "ready")
               /\ rw = (tasks[t].whalf.res = "ready")
               /\ rr \/ rw
         /\ TaskUpdate(t, select(tasks[t], rr, rw, o))

\* The task is polled at future::select(rhalf, whalf).await: the first poll
\* (a copy may complete at once), or a poll after a wake-up.
select_poll(t) ==
    /\ tasks[t].pc \in {"select", "relaying"}
    /\ \E rr, rw \in BOOLEAN, o \in IoOutcomes :
         /\ tasks[t].pc = "relaying" =>
               /\ rr = (tasks[t].rhalf.res = "ready")
               /\ rw = (tasks[t].whalf.res = "ready")
               /\ rr \/ rw
         /\ TaskUpdate(t, select(tasks[t], rr, rw, o))

\* A running copy reaches the point where it ends (end-of-stream, a timeout
\* or another I/O error on its sockets): the task is woken, and the copy
\* returns when it is next polled.
env_copy_end(t) ==
    /\ tasks[t].pc = "relaying"
    /\ \/ /\ tasks[t].rhalf.res = "pending"
          /\ TaskUpdate(t, [tasks[t] EXCEPT !.rhalf.res = "ready"])
       \/ /\ tasks[t].whalf.res = "pending"
          /\ TaskUpdate(t, [tasks[t] EXCEPT !.whalf.res = "ready"])

----------------------------------------------------------------------------

RunStep ==
    \/ run_assert_mode
    \/ run_bind_addr
    \/ run_bind
    \/ run_local_addr
    \/ run_balancer
    \/ run_forward
    \/ accept_ok
    \/ accept_err
    \/ run_sleep
    \/ run_pick
    \/ run_spawn

\* The steps the scheduler takes when it polls task t.
TaskStep(t) ==
    \/ set_nodelay(t)
    \/ peer_addr(t)
    \/ connect_proxied(t)
    \/ connect_resume(t)
    \/ select_poll(t)

EnvStep(t) ==
    \/ env_connect_done(t)
    \/ env_copy_end(t)

Next ==
    \/ RunStep
    \/ \E t \in TaskIds : TaskStep(t)
    \/ \E t \in TaskIds : EnvStep(t)

Spec == Init /\ [][Next]_vars

\* The configurations without socket tuning: set_nodelay is not called, the
\* rest of run() and of the tasks is the same.
InitNoTuning == Init /\ ~cfg.no_delay

\* The runtime polls a task that can make a step: weak fairness of every
\* task's steps.  Nothing is assumed of the accept loop's environment, of the
\* transport or of the peers.  Progress is checked from the configurations
\* without socket tuning.
FairSpec ==
    /\ InitNoTuning
    /\ [][Next]_vars
    /\ \A t \in 1..MaxConns : WF_vars(t \in TaskIds /\ TaskStep(t))

----------------------------------------------------------------------------
(* One connection followed byte by byte                                    *)

\* Bound: the number of bytes each peer sends.
MsgLen == 2

\* What the client sends and what the target answers, byte by byte.
Request == [i \in 1..MsgLen |-> <<"q", i>>]
Reply == [i \in 1..MsgLen |-> <<"p", i>>]

\* The cipher of a server's method: what copy_p2s applies to a byte for the
\* proxy server, and what copy_s2p applies to a byte from it.
Enc(m, b) == <<"enc", m, b>>
Dec(m, x) == IF Len(x) = 3 /\ x[1] = "enc" /\ x[2] = m THEN x[3] ELSE <<"garbage">>

\* One peer as the relay sees it: inq the bytes it has sent that the relay has
\* not read, rd the bytes read from it, wr the bytes written to it, nsent how
\* many bytes it has sent, eof whether it has closed its write side.
NewEnd == [inq |-> <<>>, rd |-> <<>>, wr |-> <<>>, nsent |-> 0, eof |-> FALSE]

\* The sockets of one connection: the two peers, the byte each copy has read
\* and not yet written (rbuf, wbuf), and the I/O failure each copy meets at its
\* next poll (rfault, wfault: "none", "timedout" or "err").
NewWire == [client |-> NewEnd, upstream |-> NewEnd, rbuf |-> <<>>, wbuf |-> <<>>,
            rfault |-> "none", wfault |-> "none"]

\* Variant of rhalf_ends: the copy writes to the client's write half.
rhalf_ends_to_client ==
    [src |-> "client", dst |-> "client", buf |-> "rbuf", fault |-> "rfault", mode |-> "enc"]

\* let rhalf = copy_p2s(svr_cfg.method(), &mut r, &mut svr_w);
rhalf_ends ==
    [src |-> "client", dst |-> "upstream", buf |-> "rbuf", fault |-> "rfault", mode |-> "enc"]

\* Variant of whalf_ends: the copy writes to the tunnel's write half.
whalf_ends_to_upstream ==
    [src |-> "upstream", dst |-> "upstream", buf |-> "wbuf", fault |-> "wfault", mode |-> "dec"]

\* let whalf = copy_s2p(svr_cfg.method(), &mut svr_r, &mut w);
whalf_ends ==
    [src |-> "upstream", dst |-> "client", buf |-> "wbuf", fault |-> "wfault", mode |-> "dec"]

Transform(mode, m, b) == IF mode = "enc" THEN Enc(m, b) ELSE Dec(m, b)

\* One poll of a copy with ends e and method m: it fails with the pending
\* failure if there is one; otherwise it writes the byte it holds and reads and
\* writes on, n bytes in all, until the source has nothing more (then it
\* returns Ok at end-of-stream and is pending otherwise) or the destination
\* takes no more (then it is pending and holds the byte it read last).
copy_poll(w, e, m, n) ==
    LET src == w[e.src]
        avail == w[e.buf] \o src.inq
        out == [i \in 1..n |-> Transform(e.mode, m, avail[i])]
        k == n + 1 - Len(w[e.buf])
    IN  IF w[e.fault] # "none"
          THEN [w |-> w, res |-> w[e.fault]]
          ELSE IF n = Len(avail)
            THEN [w |-> [w EXCEPT ![e.src].rd = @ \o src.inq,
                                  ![e.src].inq = <<>>,
                                  ![e.buf] = <<>>,
                                  ![e.dst].wr = @ \o out],
                  res |-> IF src.eof THEN "ok" ELSE "pending"]
            ELSE [w |-> [w EXCEPT ![e.src].rd = @ \o SubSeq(src.inq, 1, k),
                                  ![e.src].inq = SubSeq(src.inq, k + 1, Len(src.inq)),
                                  ![e.buf] = <<avail[n + 1]>>,
                                  ![e.dst].wr = @ \o out],
                  res |-> "pending"]

\* A task's step that also moves bytes on its sockets.
TaskUpdateWire(t, rec, w) ==
    /\ tasks' = [tasks EXCEPT ![t] = rec]
    /\ conns' = [conns EXCEPT ![rec.sock].state = IF rec.s = "dropped" THEN "closed" ELSE @]
    /\ wire' = [wire EXCEPT ![rec.sock] = w]
    /\ UNCHANGED <<cfg, pc, result, listener, binds, acceptFails, slept, picks, socket,
                   server, runLog>>

\* The task is polled at future::select(rhalf, whalf).await: rhalf is polled,
\* and whalf after it when rhalf is pending; each copy moves the bytes it can.
relay_poll(t) ==
    /\ tasks[t].pc \in {"select", "relaying"}
    /\ \E nr, nw \in 0..(MsgLen + 1) :
         LET w0 == wire[tasks[t].sock]
             cr == copy_poll(w0, rhalf_ends, tasks[t].rmethod, nr)
         IN  /\ nr <= Len(w0[rhalf_ends.buf] \o w0[rhalf_ends.src].inq)
             /\ nw <= Len(cr.w[whalf_ends.buf] \o cr.w[whalf_ends.src].inq)
             /\ LET cw == IF cr.res = "pending"
                            THEN copy_poll(cr.w, whalf_ends, tasks[t].wmethod, nw)
                            ELSE [w |-> cr.w, res |-> "pending"]
                    o == IF cr.res # "pending" THEN cr.res
                         ELSE IF cw.res # "pending" THEN cw.res ELSE "ok"
                IN  TaskUpdateWire(t, select(tasks[t], cr.res # "pending",
                                             cw.res # "pending", o),
                                   cw.w)

\* A peer's step: only the bytes on the sockets of connection c change.
PeerUpdate(c, w) ==
    /\ wire' = [wire EXCEPT ![c] = w]
    /\ UNCHANGED <<cfg, pc, result, listener, binds, acceptFails, slept, picks, socket,
                   server, runLog, conns, tasks>>

\* The client sends the next byte of its request.
client_send(t) ==
    LET c == tasks[t].sock IN
    /\ conns[c].state = "open"
    /\ ~wire[c].client.eof
    /\ wire[c].client.nsent < MsgLen
    /\ PeerUpdate(c, [wire[c] EXCEPT !.client.inq = Append(@, Request[wire[c].client.nsent + 1]),
                                     !.client.nsent = @ + 1])

\* The client closes its write side.
client_shutdown(t) ==
    LET c == tasks[t].sock IN
    /\ conns[c].state = "open"
    /\ ~wire[c].client.eof
    /\ PeerUpdate(c, [wire[c] EXCEPT !.client.eof = TRUE])

\* What the proxy server has got from the tunnel, deciphered with the method
\* of the server the tunnel was opened to.
UpstreamReceived(t) ==
    [i \in 1..Len(wire[tasks[t].sock].upstream.wr) |->
        Dec(tasks[t].svr_cfg, wire[tasks[t].sock].upstream.wr[i])]

\* The proxy server sends the next byte of the reply, under its method.
upstream_send(t) ==
    LET c == tasks[t].sock IN
    /\ tasks[t].tunnel = "open"
    /\ ~wire[c].upstream.eof
    /\ wire[c].upstream.nsent < MsgLen
    /\ PeerUpdate(c, [wire[c] EXCEPT
           !.upstream.inq = Append(@, Enc(tasks[t].svr_cfg, Reply[wire[c].upstream.nsent + 1])),
           !.upstream.nsent = @ + 1])

\* The proxy server closes its write side.
upstream_shutdown(t) ==
    LET c == tasks[t].sock IN
    /\ tasks[t].tunnel = "open"
    /\ ~wire[c].upstream.eof
    /\ PeerUpdate(c, [wire[c] EXCEPT !.upstream.eof = TRUE])

\* A copy meets a timeout or another I/O error on one of its sockets.
copy_fault(t) ==
    LET c == tasks[t].sock IN
    /\ tasks[t].tunnel = "open"
    /\ \E f \in {"timedout", "err"} :
         \/ /\ wire[c].rfault = "none"
            /\ PeerUpdate(c, [wire[c] EXCEPT !.rfault = f])
         \/ /\ wire[c].wfault = "none"
            /\ PeerUpdate(c, [wire[c] EXCEPT !.wfault = f])

\* The state of run() after its first spawn: the loop is back at accept, the
\* first connection is with its task, which has not been polled yet.
InitConn ==
    /\ cfg \in [enable_tcp : {TRUE}, local_addr : {"local"}, forward : ForwardAddrs,
                no_delay : BOOLEAN]
    /\ pc = "accept"
    /\ result = <<>>
    /\ listener = "bound"
    /\ binds = 1
    /\ acceptFails = 0
    /\ slept = 0
    /\ picks = 1
    /\ socket = 0
    /\ server = 0
    /\ runLog = SetToBag({<<"info", "listening">>, <<"trace", "got connection">>,
                          <<"trace", "picked proxy server">>})
    /\ conns = <<[state |-> "open", owner |-> 1]>>
    /\ tasks = <<NewTask(1, 1)>>
    /\ wire = <<NewWire>>

\* The steps of the connection's task up to the relay.
SetupStep(t) ==
    \/ set_nodelay(t)
    \/ peer_addr(t)
    \/ connect_proxied(t)
    \/ env_connect_done(t)
    \/ connect_resume(t)

ByteNext ==
    \E t \in TaskIds :
        \/ SetupStep(t)
        \/ relay_poll(t)
        \/ client_send(t)
        \/ client_shutdown(t)
        \/ upstream_send(t)
        \/ upstream_shutdown(t)
        \/ copy_fault(t)

\* One connection with any behaviour of its two peers.
ByteSpec == InitConn /\ [][ByteNext]_vars

\* The scenario: the client sends its request and keeps its side open; the
\* target answers once it has the whole request, and the proxy server closes
\* its write side after the whole reply; no copy times out or fails.
ScenarioNext ==
    \E t \in TaskIds :
        \/ SetupStep(t)
        \/ relay_poll(t)
        \/ client_send(t)
        \/ UpstreamReceived(t) = Request /\ upstream_send(t)
        \/ wire[tasks[t].sock].upstream.nsent = MsgLen /\ upstream_shutdown(t)

\* The steps the task makes by itself when it is polled.
ScenarioTaskStep(t) ==
    \/ set_nodelay(t)
    \/ peer_addr(t)
    \/ connect_proxied(t)
    \/ connect_resume(t)
    \/ relay_poll(t)

\* The runtime polls the task when it can make a step, and in the scenario
\* both peers take the bytes written to them and do what the scenario says:
\* the client sends its request, the target answers it and closes.
ScenarioSpec ==
    /\ InitConn
    /\ [][ScenarioNext]_vars
    /\ \A t \in {1} :
        /\ WF_vars(t \in TaskIds /\ ScenarioTaskStep(t))
        /\ WF_vars(t \in TaskIds /\ client_send(t))
        /\ WF_vars(t \in TaskIds /\ UpstreamReceived(t) = Request /\ upstream_send(t))
        /\ WF_vars(t \in TaskIds /\ wire[tasks[t].sock].upstream.nsent = MsgLen
                                 /\ upstream_shutdown(t))

----------------------------------------------------------------------------
(* Properties                                                              *)

Closed(t) ==
    /\ tasks[t].pc = "done"
    /\ conns[tasks[t].sock].state = "closed"
    /\ tasks[t].tunnel # "open"

LoopRunning == pc \in LoopPcs /\ result = <<>> /\ listener = "bound"

\* C1: once run() is in its accept loop it stays there: whatever happens to
\* an accept or to a connection, the loop is afterwards still at accept, in
\* its backoff sleep or dispatching an accepted socket, it has not returned
\* and still holds the listener; a step of a task (its failure included)
\* changes nothing of the loop's state.
AcceptLoopNeverExits ==
    [][ /\ pc \in LoopPcs => (pc' \in LoopPcs /\ result' = <<>> /\ listener' = "bound")
        /\ \A t \in TaskIds : tasks'[t] # tasks[t] => UNCHANGED runVars ]_vars

\* Reached: the loop is still running after a failed accept, a connection
\* that failed in its set-up and a relay that ended with an error.
AcceptLoopSurvivedFailures ==
    /\ LoopRunning
    /\ acceptFails > 0
    /\ \E t \in TaskIds : tasks[t].result = "Err"
    /\ \E t \in TaskIds : tasks[t].result = "Ok" /\ tasks[t].outcome \in {"timedout", "err"}

\* C2: a failed bind (or a bind address that does not resolve) makes run()
\* return that error at once: one bind attempt at most, and no accept, no
\* pick and no spawn.
BindFailureIsFatal ==
    /\ (binds > 0 /\ listener = "none") =>
          /\ pc = "returned"
          /\ result = <<"Err", "bind">>
          /\ binds = 1
    /\ pc = "returned" =>
          /\ result \in {<<"Err", "bind">>, <<"Err", "bind_addr">>}
          /\ result = <<"Err", "bind_addr">> => binds = 0
          /\ listener = "none"
          /\ conns = <<>> /\ acceptFails = 0 /\ picks = 0 /\ tasks = <<>>

BindFailed == pc = "returned" /\ result = <<"Err", "bind">> /\ binds = 1

\* C3: with TCP relay mode disabled or no forward address configured, run()
\* never reaches its accept loop: it accepts nothing, picks no server and
\* spawns no task, and when it stops it has failed (the assert!/expect
\* panics, or an earlier bind error is returned); with the mode disabled
\* it stops before binding.
BadConfigStopsStartup ==
    (~cfg.enable_tcp \/ cfg.forward = "none") =>
        /\ pc \notin LoopPcs
        /\ conns = <<>> /\ acceptFails = 0 /\ picks = 0 /\ tasks = <<>>
        /\ pc \in {"panicked", "returned"} =>
              /\ result # <<>>
              /\ result[1] \in {"panic", "Err"}
              /\ listener # "bound"
        /\ ~cfg.enable_tcp => binds = 0 /\ pc \in {"start", "panicked"}

ForwardMissingReported ==
    /\ cfg.forward = "none"
    /\ pc = "panicked"
    /\ result = <<"panic", "forward address in config">>

\* C4: every failed accept costs exactly one 1-second sleep before the next
\* accept attempt: at an accept attempt the loop has slept one second per
\* failure so far, during the sleep one second less; a failed accept
\* picks no server and spawns no task; failures leave the loop running.
OneBackoffPerAcceptFailure ==
    /\ pc = "sleep" => slept = acceptFails - 1
    /\ pc \in {"accept", "pick", "spawn"} => slept = acceptFails
    /\ picks = Len(conns) - (IF pc = "pick" THEN 1 ELSE 0)
    /\ Len(tasks) = picks - (IF pc = "spawn" THEN 1 ELSE 0)
    /\ acceptFails > 0 => LoopRunning

RepeatedAcceptFailures ==
    /\ acceptFails = MaxAcceptFails
    /\ pc = "accept"
    /\ slept = MaxAcceptFails
    /\ conns = <<>>

\* C5: a connection whose tunnel open failed has called connect_proxied
\* once, has no tunnel and no copy future, and does nothing but finish:
\* its client socket is closed, the error is its result, logged at the task
\* boundary as the last record, and the accept loop is still running.
TunnelOpenFailureAborts ==
    \A t \in TaskIds :
        tasks[t].io = "err" =>
            /\ tasks[t].connects = 1
            /\ tasks[t].tunnel = "none"
            /\ tasks[t].rhalf = NoFuture /\ tasks[t].whalf = NoFuture
            /\ tasks[t].pc \in {"connecting", "done"}
            /\ tasks[t].pc = "done" =>
                  /\ conns[tasks[t].sock].state = "closed"
                  /\ tasks[t].result = "Err"
                  /\ tasks[t].log[Len(tasks[t].log)]
                        = <<"debug", "TCP tunnel client exited with error">>
            /\ LoopRunning

TunnelOpenFailed ==
    /\ Len(tasks) = MaxConns
    /\ tasks[1].io = "err" /\ Closed(1) /\ tasks[1].result = "Err"

\* A direction of t's relay has ended and the task has not yet seen it.
DirectionEnded(t) ==
    /\ tasks[t].pc = "relaying"
    /\ tasks[t].rhalf.res = "ready" \/ tasks[t].whalf.res = "ready"

\* C6: when a direction of a relaying connection ends, the connection gets
\* closed: the task finishes with Ok, the client socket and the tunnel are
\* closed, whether or not the other direction ever ends.
RelayEndTearsDown ==
    \A t \in 1..MaxConns :
        (t \in TaskIds /\ DirectionEnded(t))
            ~> (/\ t \in TaskIds
                /\ Closed(t)
                /\ tasks[t].tunnel = "closed"
                /\ tasks[t].result = "Ok")

\* Reached: upstream-to-client ended first, so client-to-upstream was polled
\* and still pending at the teardown.
ClosedOnOneDirection ==
    \E t \in TaskIds :
        /\ Closed(t)
        /\ tasks[t].first = "Right"
        /\ tasks[t].rhalf.started
        /\ tasks[t].tunnel = "closed"
        /\ tasks[t].result = "Ok"

\* The tasks that hold client socket c.
Owners(c) == {t \in TaskIds : tasks[t].sock = c}

\* C7 as stated: every connection that finished had exactly one tunnel
\* established, and exactly one task owned its sockets.
ExactlyOneTunnelPerConn ==
    \A t \in TaskIds :
        tasks[t].pc = "done" =>
            /\ tasks[t].connects = 1
            /\ tasks[t].tunnel = "closed"
            /\ Owners(tasks[t].sock) = {t}

\* C7, amended: a connection has at most one tunnel open attempt and at most
\* one tunnel, which exists exactly when the open succeeded (a connection
\* that ends with Ok had one, one that ends with Err had none); an accepted
\* socket is held by the loop until the spawn and from then on by exactly
\* one task, which also holds the tunnel and the copy futures; the holder
\* never changes afterwards.
OneTunnelOneOwnerPerConn ==
    /\ [](\A c \in ConnIds :
             /\ Cardinality(Owners(c)) <= 1
             /\ conns[c].owner = 0 => (Owners(c) = {} /\ socket = c)
             /\ conns[c].owner # 0 => (Owners(c) = {conns[c].owner} /\ socket # c))
    /\ [](\A t \in TaskIds :
             /\ tasks[t].connects <= 1
             /\ tasks[t].tunnel # "none" <=> (tasks[t].io = "ok" /\ tasks[t].pc # "connecting")
             /\ tasks[t].rhalf.res # "none" <=> tasks[t].tunnel # "none"
             /\ tasks[t].whalf.res # "none" <=> tasks[t].tunnel # "none"
             /\ tasks[t].pc = "done" => (tasks[t].result = "Ok" <=> tasks[t].tunnel = "closed"))
    /\ [][ /\ \A c \in ConnIds : conns[c].owner # 0 => conns'[c].owner = conns[c].owner
           /\ \A t \in TaskIds : tasks'[t].sock = tasks[t].sock ]_vars

\* Reached: one connection relayed through its tunnel, another one ended
\* without a tunnel.
TunnelAndNoTunnel ==
    /\ \E t \in TaskIds : Closed(t) /\ tasks[t].result = "Ok" /\ tasks[t].tunnel = "closed"
    /\ \E t \in TaskIds : Closed(t) /\ tasks[t].result = "Err" /\ tasks[t].tunnel = "none"

\* Task t waits for its transport or its peers: the tunnel open is pending,
\* or the relay runs and neither direction has ended.
WaitingOnPeer(t) ==
    \/ tasks[t].pc = "connecting" /\ tasks[t].io = "pending"
    \/ /\ tasks[t].pc = "relaying"
       /\ tasks[t].rhalf.res = "pending"
       /\ tasks[t].whalf.res = "pending"

\* Every accepted connection has been handed to its task.
AllDispatched == conns # <<>> /\ Len(tasks) = Len(conns)

\* The loop can take the next connection.
CanAcceptNext ==
    /\ pc \in {"accept", "sleep"}
    /\ (pc = "accept" /\ Len(conns) < MaxConns) => ENABLED accept_ok

\* C8 as stated: every accepted connection reaches Closed, and the loop can
\* accept the next one.
EveryConnReachesClosed ==
    /\ \A t \in 1..MaxConns : (t \in TaskIds) ~> (t \in TaskIds /\ Closed(t))
    /\ [](AllDispatched => CanAcceptNext)

\* C8, amended: whatever the other connections do, a connection is closed
\* or else waits for its own transport or peers (a pending tunnel open, a
\* relay in which no direction has ended); nothing bounds that wait.  With N
\* connections handed to their tasks, in any states, the loop is at accept
\* or in its backoff sleep and can accept the next one.
ConnsCloseIndependently ==
    /\ \A t \in 1..MaxConns :
          (t \in TaskIds) ~> (t \in TaskIds /\ (Closed(t) \/ WaitingOnPeer(t)))
    /\ [](AllDispatched => CanAcceptNext)

\* Reached: the last connection is closed while the first still waits.
LaterClosedEarlierWaiting ==
    /\ Len(tasks) = MaxConns
    /\ Closed(MaxConns)
    /\ WaitingOnPeer(1)

\* t's record without what set_nodelay may write.
WithoutNodelay(rec) == [rec EXCEPT !.nodelay = "notcalled", !.log = <<>>]

\* C9: set_nodelay is called exactly when no_delay is configured; its
\* failure writes one error record and changes nothing else: the step leaves
\* the task where a success leaves it, at peer_addr with the socket held,
\* and a task whose tuning failed is never ended by that failure.
NodelayBestEffort ==
    /\ [](\A t \in TaskIds :
             /\ ~cfg.no_delay => tasks[t].nodelay = "notcalled"
             /\ (cfg.no_delay /\ tasks[t].pc # "start") => tasks[t].nodelay \in {"ok", "failed"}
             /\ tasks[t].nodelay = "failed" =>
                   /\ tasks[t].log[1] = <<"error", "failed to set TCP_NODELAY">>
                   /\ (tasks[t].result = "Err" =>
                          (tasks[t].io = "err" \/ tasks[t].client_addr = 0)))
    /\ [][ \A t \in TaskIds :
             (tasks[t].pc = "start" /\ tasks'[t] # tasks[t]) =>
                 /\ WithoutNodelay(tasks'[t]) = [tasks[t] EXCEPT !.pc = "peer_addr"]
                 /\ tasks'[t].log = IF tasks'[t].nodelay = "failed"
                                      THEN <<<<"error", "failed to set TCP_NODELAY">>>>
                                      ELSE <<>>
                 /\ conns'[tasks[t].sock].state = "open" ]_vars

\* Reached: the tuning failed and the connection was relayed all the same.
RelayedAfterNodelayFailure ==
    \E t \in TaskIds :
        /\ tasks[t].nodelay = "failed"
        /\ tasks[t].result = "Ok"
        /\ tasks[t].tunnel = "closed"

\* C10: the spawn returns at once: the step that creates a task leaves the
\* loop at accept, the new task not yet polled and the other tasks as they
\* were; and while run() has not ended and the bounds allow another
\* connection, the loop has a step it can take whatever the tasks do, so the
\* live tasks are as many as the connections accepted and not finished.
SpawnDoesNotWait ==
    /\ [][ Len(tasks') = Len(tasks) + 1 =>
             /\ pc' = "accept"
             /\ tasks'[Len(tasks')].pc = "start"
             /\ \A t \in TaskIds : tasks'[t] = tasks[t] ]_vars
    /\ []((tasks # <<>> /\ Len(conns) < MaxConns) => ENABLED RunStep)

\* Reached: the loop has accepted one more connection while all the earlier
\* ones are still opening their tunnel or relaying.
AcceptedWhileAllLive ==
    /\ pc = "pick"
    /\ Len(tasks) = MaxConns - 1
    /\ tasks # <<>>
    /\ \A t \in TaskIds : tasks[t].pc \in {"connecting", "relaying"} /\ WaitingOnPeer(t)

\* The state of a connection: 0 before the tunnel is open, 1 Established
\* (tunnel open, no copy polled yet), 2 Relaying (both copies running),
\* 3 Closing (a direction has terminated), 4 Closed (the task has returned).
Phase(rec) ==
    IF rec.pc = "done" THEN 4
    ELSE IF rec.pc = "relaying" /\ (rec.rhalf.res = "ready" \/ rec.whalf.res = "ready") THEN 3
    ELSE IF rec.pc = "relaying" THEN 2
    ELSE IF rec.pc = "select" THEN 1
    ELSE 0

\* C12: a connection moves Established -> Relaying -> Closing -> Closed and in
\* no other way: it is Established by the step that opens the tunnel, with no
\* copy started; a copy has started only with the tunnel opened; a first poll
\* in which a copy completes at once goes through Relaying and Closing inside
\* that poll (the copy started and its termination is recorded); the tunnel is
\* torn down only with a termination recorded; a connection closed before it
\* was Established never had a tunnel; and nothing of a Closed connection
\* changes any more.
ConnStateMachine ==
    [][\A t \in TaskIds :
         LET a == Phase(tasks[t])
             b == Phase(tasks'[t])
             post == tasks'[t]
         IN  /\ <<a, b>> \in {<<0, 0>>, <<0, 1>>, <<0, 4>>, <<1, 1>>, <<1, 2>>, <<1, 4>>,
                             <<2, 2>>, <<2, 3>>, <<3, 3>>, <<3, 4>>, <<4, 4>>}
             /\ (a = 0 /\ b = 1) =>
                   /\ post.tunnel = "open"
                   /\ ~post.rhalf.started /\ ~post.whalf.started
             /\ (a = 0 /\ b = 4) => (post.tunnel = "none" /\ post.result = "Err")
             /\ (a = 1 /\ b = 4) => (post.rhalf.started /\ post.first # "none")
             /\ b \in {1, 2, 3} => post.tunnel = "open"
             /\ b \in {2, 3} => (post.rhalf.started /\ post.whalf.started)
             /\ (post.rhalf.started \/ post.whalf.started) =>
                   (post.tunnel # "none" /\ b >= 2)
             /\ post.whalf.started => post.rhalf.started
             /\ post.first # "none" <=> post.tunnel = "closed"
             /\ post.tunnel = "closed" => b = 4
             /\ a = 4 =>
                   /\ post = tasks[t]
                   /\ conns'[tasks[t].sock] = conns[tasks[t].sock]
      ]_vars

\* C12 witness: a connection is Closed after a relay in which both copies ran
\* and the client's direction terminated first, while the loop went on.
ClosedAfterAllPhases ==
    \E t \in TaskIds :
        /\ Closed(t)
        /\ tasks[t].tunnel = "closed"
        /\ tasks[t].first = "Left"
        /\ tasks[t].whalf.started
        /\ tasks[t].result = "Ok"
        /\ Len(tasks) > t

\* The record the spawned block writes when handle_tunnel_client returns Err.
ExitedWithError(rec) ==
    \E i \in 1..Len(rec.log) : rec.log[i] = <<"debug", "TCP tunnel client exited with error">>

\* C13: a task whose tunnel was opened returns Ok, whichever direction ended
\* the relay and however (end-of-stream, timeout, other I/O error), and writes
\* no error record at the task boundary; a task returns Err, and that record
\* is written, only when the peer address or the tunnel open failed, with no
\* tunnel opened and no copy started.
RelayErrorsNotPropagated ==
    \A t \in TaskIds :
        LET rec == tasks[t] IN
        /\ (rec.pc = "done" /\ rec.tunnel # "none") =>
              /\ rec.result = "Ok"
              /\ rec.first \in {"Left", "Right"}
              /\ rec.outcome \in IoOutcomes
              /\ ~ExitedWithError(rec)
        /\ rec.result = "Err" =>
              /\ rec.tunnel = "none"
              /\ ~rec.rhalf.started /\ ~rec.whalf.started
              /\ rec.client_addr = 0 \/ rec.io = "err"
        /\ ExitedWithError(rec) <=> rec.result = "Err"
        /\ rec.pc = "done" <=> rec.result # "none"

\* C13 witness: a relay ended by an I/O error that is no timeout, in the
\* upstream's direction, and the task returned Ok without an error record.
RelayFailedTaskOk ==
    \E t \in TaskIds :
        /\ Closed(t)
        /\ tasks[t].first = "Right"
        /\ tasks[t].outcome = "err"
        /\ tasks[t].result = "Ok"
        /\ ~ExitedWithError(tasks[t])

\* The level the termination record is to have for an outcome.
LevelOf(o) ==
    CASE o = "ok" -> "trace"
      [] o = "timedout" -> "trace"
      [] OTHER -> "debug"

\* The termination record of a task whose relay has ended: the record before
\* the closing debug record.
TerminationRecord(rec) == rec.log[Len(rec.log) - 1]

\* C14: the termination record names the direction that finished first and
\* its outcome, and its level depends on the outcome alone, the same for both
\* directions: trace for end-of-stream, trace for a timeout, debug for any
\* other I/O error.
TerminationLevelByOutcome ==
    \A t \in TaskIds :
        tasks[t].tunnel = "closed" =>
            /\ Len(tasks[t].log) >= 2
            /\ TerminationRecord(tasks[t]) =
                  <<LevelOf(tasks[t].outcome), "TUNNEL relay closed",
                    tasks[t].first, tasks[t].outcome>>

\* C14 witness: two relays ended by a timeout, one in each direction, and
\* both termination records are at trace.
TimeoutBothDirectionsTrace ==
    \E t, u \in TaskIds :
        /\ tasks[t].tunnel = "closed" /\ tasks[u].tunnel = "closed"
        /\ tasks[t].first = "Left" /\ tasks[u].first = "Right"
        /\ tasks[t].outcome = "timedout" /\ tasks[u].outcome = "timedout"
        /\ TerminationRecord(tasks[t])[1] = "trace"
        /\ TerminationRecord(tasks[u])[1] = "trace"

\* C15: the balancer is asked once for every accepted socket, by the loop,
\* between the accept and the spawn: the k-th pick is for the k-th accepted
\* socket, a failed accept brings no pick, and no step of a task picks.  The
\* task of a connection opens its tunnel to the server picked for it and
\* gives both copies that server's method.
PickedOncePerAcceptByLoop ==
    /\ [](/\ picks = IF pc = "pick" THEN Len(conns) - 1 ELSE Len(conns)
          /\ Len(tasks) = IF pc = "spawn" THEN picks - 1 ELSE picks
          /\ \A t \in TaskIds :
                /\ tasks[t].server = tasks[t].sock
                /\ tasks[t].sock = t
                /\ tasks[t].svr_cfg = IF tasks[t].connects = 0 THEN 0 ELSE tasks[t].server
                /\ tasks[t].connects <= 1
                /\ tasks[t].tunnel # "none" =>
                      /\ tasks[t].rmethod = tasks[t].server
                      /\ tasks[t].wmethod = tasks[t].server)
    /\ [][/\ picks' # picks =>
                /\ pc = "pick" /\ pc' = "spawn"
                /\ picks' = picks + 1
                /\ server' = picks'
                /\ socket' = socket /\ socket = Len(conns)
                /\ tasks' = tasks /\ conns' = conns
          /\ acceptFails' # acceptFails => (picks' = picks /\ conns' = conns /\ pc' = "sleep")
          /\ Len(conns') # Len(conns) => (pc = "accept" /\ pc' = "pick")
          /\ \A t \in TaskIds : tasks'[t].server = tasks[t].server
      ]_vars

\* C15 witness: after a failed accept, the second connection is relayed through
\* the second server picked and the first through the first.
SecondConnOnSecondPick ==
    /\ acceptFails >= 1
    /\ picks = 2
    /\ Len(tasks) = 2
    /\ tasks[1].tunnel = "open" /\ tasks[1].rmethod = 1 /\ tasks[1].wmethod = 1
    /\ tasks[2].tunnel = "open" /\ tasks[2].rmethod = 2 /\ tasks[2].wmethod = 2
    /\ tasks[2].rhalf.started

\* The tasks that make a step.
Stepping == {t \in TaskIds : tasks'[t] # tasks[t]}

\* C16: a connection is touched by its one owner only.  Until the spawn the
\* owner is the loop, and all the loop does with the socket is hand it to the
\* new task; from then on only the step of the task that owns the connection
\* changes it (closes it), and the loop does not step then.  A step of a task
\* changes that task's own record and client socket and nothing else: no other
\* task's record (with its tunnel and copies), no other connection, and
\* nothing of the loop, its listener included.
OnlyOwnerTouchesConn ==
    [][/\ \A c \in ConnIds :
            conns'[c] # conns[c] =>
                IF conns[c].owner = 0
                  THEN /\ pc = "spawn" /\ socket = c
                       /\ conns'[c] = [conns[c] EXCEPT !.owner = Len(tasks) + 1]
                       /\ Len(tasks') = Len(tasks) + 1
                       /\ tasks'[Len(tasks')].sock = c
                       /\ socket' = 0
                       /\ Stepping = {}
                  ELSE /\ Stepping = {conns[c].owner}
                       /\ tasks[conns[c].owner].sock = c
                       /\ conns'[c].owner = conns[c].owner
                       /\ runVars' = runVars
       /\ Cardinality(Stepping) <= 1
       /\ \A t \in Stepping :
            /\ runVars' = runVars
            /\ listener' = listener
            /\ Len(tasks') = Len(tasks) /\ Len(conns') = Len(conns)
            /\ \A c \in ConnIds : c # tasks[t].sock => conns'[c] = conns[c]
            /\ conns[tasks[t].sock].owner = t
       /\ socket # 0 => (conns[socket].owner = 0 /\ socket = Len(conns))
      ]_vars

\* C16 witness: two connections are with their two tasks and the loop holds
\* no socket; the first task has closed its connection, the second relays.
TwoOwnersOneClosed ==
    /\ Len(tasks) = 2
    /\ socket = 0 /\ pc = "accept" /\ listener = "bound"
    /\ conns[1] = [state |-> "closed", owner |-> 1]
    /\ conns[2] = [state |-> "open", owner |-> 2]
    /\ tasks[1].tunnel = "closed"
    /\ tasks[2].tunnel = "open" /\ tasks[2].pc = "relaying"

\* C18: a task whose peer_addr() failed has returned at once: it never read
\* the target, never called connect_proxied, has no tunnel and no copy, its
\* client socket is closed, it returned Err and the last thing it wrote is the
\* error record of the task boundary; no task gets past peer_addr() without a
\* client address; and the failing step changes nothing of the accept loop,
\* which keeps running.
PeerAddrFailureAbortsEarly ==
    /\ [](\A t \in TaskIds :
            LET rec == tasks[t] IN
            /\ (rec.pc = "done" /\ rec.client_addr = 0) =>
                  /\ rec.target = "none"
                  /\ rec.connects = 0 /\ rec.io = "none" /\ rec.svr_cfg = 0
                  /\ rec.tunnel = "none"
                  /\ rec.rhalf = NoFuture /\ rec.whalf = NoFuture
                  /\ rec.s = "dropped" /\ conns[rec.sock].state = "closed"
                  /\ rec.result = "Err"
                  /\ rec.log # <<>>
                  /\ rec.log[Len(rec.log)] = <<"debug", "TCP tunnel client exited with error">>
                  /\ LoopRunning
            /\ rec.pc \notin {"start", "peer_addr", "done"} => rec.client_addr # 0
            /\ rec.connects > 0 => rec.client_addr # 0)
    /\ [][\A t \in TaskIds :
            (tasks[t].pc = "peer_addr" /\ tasks'[t].pc = "done") =>
                /\ tasks'[t].client_addr = 0
                /\ runVars' = runVars
                /\ \A u \in TaskIds : u # t => tasks'[u] = tasks[u]
      ]_vars

\* C18 witness: the first connection was aborted at peer_addr(), and the
\* loop has accepted a second one, which is being relayed.
AbortedAtPeerAddrOtherRelayed ==
    /\ Len(tasks) = 2
    /\ tasks[1].pc = "done" /\ tasks[1].client_addr = 0 /\ tasks[1].connects = 0
    /\ conns[1].state = "closed"
    /\ tasks[2].tunnel = "open"
    /\ LoopRunning

\* The positions of the termination records in a task's log: the records
\* that carry a side and an outcome.
Terminations(rec) == {i \in 1..Len(rec.log) : Len(rec.log[i]) = 4}

\* C19: a relayed connection has exactly one termination record, that of the
\* direction select reported, with its outcome, and a connection not (yet)
\* torn down has none; the poll that finds a copy complete reports Left
\* whenever the client's copy is complete, the upstream's being complete too
\* or not, and Right only when the client's copy is pending; the copy not
\* reported is dropped without an outcome.
OneOutcomeLeftFirst ==
    /\ [](\A t \in TaskIds :
            LET rec == tasks[t] IN
            /\ Cardinality(Terminations(rec)) = IF rec.tunnel = "closed" THEN 1 ELSE 0
            /\ \A i \in Terminations(rec) :
                  /\ rec.log[i][3] = rec.first
                  /\ rec.log[i][4] = rec.outcome
                  /\ i = Len(rec.log) - 1
            /\ rec.first = "none" <=> rec.outcome = "none"
            /\ rec.first = "Left" => ~rec.whalf.started \/ rec.whalf.res = "dropped"
            /\ rec.first = "Right" => rec.rhalf.started /\ rec.rhalf.res = "dropped")
    /\ [][\A t \in TaskIds :
            (tasks[t].pc = "relaying" /\ tasks'[t].pc = "done") =>
                /\ tasks[t].rhalf.res = "ready" \/ tasks[t].whalf.res = "ready"
                /\ tasks'[t].first = IF tasks[t].rhalf.res = "ready" THEN "Left" ELSE "Right"
                /\ Len(tasks'[t].log) = Len(tasks[t].log) + 2
      ]_vars

\* C19 witness: one connection was closed on Left after both its copies had
\* run; in another both copies are complete and the task has not been polled.
LeftReportedBothComplete ==
    \E t, u \in TaskIds :
        /\ tasks[t].tunnel = "closed"
        /\ tasks[t].first = "Left"
        /\ tasks[t].whalf.started
        /\ Cardinality(Terminations(tasks[t])) = 1
        /\ tasks[u].pc = "relaying"
        /\ tasks[u].rhalf.res = "ready" /\ tasks[u].whalf.res = "ready"

\* C20: wherever a task exists the configuration has a forward address, so
\* the unwrap in handle_tunnel_client does not panic; the accept loop is
\* entered only with a forward address; the configuration never changes; and
\* every task that has read its target has the configured forward address.
ForwardPresentForEveryTask ==
    /\ [](/\ tasks # <<>> => cfg.forward \in ForwardAddrs
          /\ pc \in LoopPcs => cfg.forward \in ForwardAddrs
          /\ \A t \in TaskIds :
                /\ tasks[t].pc # "panicked"
                /\ tasks[t].target \in {"none", cfg.forward}
                /\ tasks[t].client_addr # 0 => tasks[t].target = cfg.forward
                /\ tasks[t].connects > 0 => tasks[t].target = cfg.forward)
    /\ [][cfg' = cfg]_vars

\* C20 witness: two tasks have read the target, both the configured address,
\* and both tunnels are open to it.
TwoTasksSameTarget ==
    /\ Len(tasks) = 2
    /\ cfg.forward \in ForwardAddrs
    /\ \A t \in TaskIds : tasks[t].target = cfg.forward /\ tasks[t].tunnel = "open"

----------------------------------------------------------------------------
(* Properties of one connection followed byte by byte                     *)

\* Both ends of connection t have got the other end's bytes, all of them and
\* as they were sent.
Delivered(t) ==
    /\ UpstreamReceived(t) = Request
    /\ wire[tasks[t].sock].client.wr = Reply

\* C11: in the scenario (tunnel open, the client sends its request, the
\* target answers and the proxy server closes its write side) the request
\* reaches the proxy server and the reply reaches the client, complete and
\* unmodified, and the client connection is closed after that: a tunnel is
\* never torn down before both are delivered, an open tunnel leads to the
\* connection closed with both delivered, and the closing of the upstream
\* write side leads to the connection closed.
RequestReplyForwardedThenClosed ==
    /\ [](\A t \in TaskIds : tasks[t].tunnel = "closed" => Delivered(t) /\ Closed(t))
    /\ \A t \in 1..MaxConns :
        /\ (t \in TaskIds /\ tasks[t].tunnel = "open")
              ~> (t \in TaskIds /\ Closed(t) /\ Delivered(t))
        /\ (t \in TaskIds /\ tasks[t].tunnel = "open" /\ wire[tasks[t].sock].upstream.eof)
              ~> (t \in TaskIds /\ Closed(t))

\* C11 witness: the scenario has run to its end: the reply's copy ended at
\* end-of-stream, both byte sequences are delivered, the connection is closed.
ScenarioRanToClose ==
    \E t \in TaskIds :
        /\ Closed(t)
        /\ tasks[t].first = "Right"
        /\ tasks[t].outcome = "ok"
        /\ wire[tasks[t].sock].upstream.eof
        /\ Delivered(t)
        /\ Len(Request) > 0

\* a is an initial part of b.
Prefix(a, b) ==
    /\ Len(a) <= Len(b)
    /\ \A i \in 1..Len(a) : a[i] = b[i]

\* The bytes read from the tunnel of task t, deciphered with the method of
\* the server the tunnel was opened to.
UpstreamSent(t) ==
    [i \in 1..Len(wire[tasks[t].sock].upstream.rd) |->
        Dec(tasks[t].svr_cfg, wire[tasks[t].sock].upstream.rd[i])]

\* C17: at every state what has been written to the proxy server is, under
\* the cipher, an initial part of what has been read from the client, and
\* what has been written to the client an initial part of what has been read
\* from the proxy server, each copy holding at most the byte it read last;
\* the poll in which the client's direction terminates copies nothing in the
\* other direction, and once the task has returned no byte is read or written
\* any more: bytes read and not written, or sent and not read, stay so.
RelayCopiesPrefixThenStops ==
    /\ [](\A t \in TaskIds :
            LET w == wire[tasks[t].sock] IN
            /\ Prefix(UpstreamReceived(t), w.client.rd)
            /\ Prefix(w.client.wr, UpstreamSent(t))
            /\ Prefix(w.client.rd, Request)
            /\ Prefix(UpstreamSent(t), Reply)
            /\ Len(w.client.rd) = Len(w.upstream.wr) + Len(w.rbuf)
            /\ Len(w.upstream.rd) = Len(w.client.wr) + Len(w.wbuf)
            /\ Len(w.rbuf) <= 1 /\ Len(w.wbuf) <= 1
            /\ tasks[t].tunnel = "none" => (w.client.rd = <<>> /\ w.upstream.rd = <<>>))
    /\ [][\A t \in TaskIds :
            LET w == wire[tasks[t].sock]
                v == wire'[tasks[t].sock]
            IN  /\ tasks[t].pc = "done" =>
                      /\ v.client.rd = w.client.rd /\ v.client.wr = w.client.wr
                      /\ v.upstream.rd = w.upstream.rd /\ v.upstream.wr = w.upstream.wr
                      /\ v.rbuf = w.rbuf /\ v.wbuf = w.wbuf
                /\ (tasks[t].pc # "done" /\ tasks'[t].first = "Left") =>
                      /\ v.upstream.rd = w.upstream.rd /\ v.client.wr = w.client.wr
                      /\ v.wbuf = w.wbuf
                /\ (tasks[t].pc # "done" /\ tasks'[t].first = "Right") =>
                      tasks'[t].rhalf.res = "dropped"
      ]_vars

\* C17 witness: the client's direction ended at end-of-stream after the whole
\* request was forwarded, and the connection is closed with bytes of the
\* reply lost: one read from the proxy server and never written to the
\* client, one sent by the proxy server and never read.
ReplyBytesDropped ==
    \E t \in TaskIds :
        LET w == wire[tasks[t].sock] IN
        /\ Closed(t)
        /\ tasks[t].first = "Left" /\ tasks[t].outcome = "ok"
        /\ UpstreamReceived(t) = Request
        /\ w.wbuf # <<>>
        /\ w.upstream.inq # <<>>
        /\ Len(w.client.wr) < Len(w.upstream.rd)

====
